---- MODULE Spec2Model ----
(***************************************************************************)
(* 9cc: a compiler from one arithmetic expression to x86-64 assembly.      *)
(* The model follows src/9cc.c: main, tokenize, the recursive-descent      *)
(* parser expr / mul / primary with its token cursor, the code generator   *)
(* gen, and the execution of the emitted instructions on the stack         *)
(* machine they are written for.                                           *)
(***************************************************************************)
EXTENDS Integers, Sequences, FiniteSets, TLC

VARIABLES
    argv,        \* the arguments after the program name (argc = Len(argv) + 1)
    pc,          \* where the run is: main, tokenize, parse, emit, asm, halt, exit
    user_input,  \* char *user_input: the program text, a sequence of characters
    p,           \* tokenize's char *p, as an offset into user_input
    toks,        \* the token list, head.next onwards, in link order
    token,       \* Token *token: index into toks of the current token, 0 = NULL
    frames,      \* the parser's call stack: which of expr/mul/primary, where, its node
    node,        \* main's Node *node, once expr has returned
    out,         \* standard output: the lines printed so far
    err,         \* standard error: the diagnostic printed, if any
    status,      \* the process exit status, -1 while running
    ip,          \* the emitted program's instruction pointer (index into out)
    stack,       \* the emitted program's stack, top last
    stack0,      \* the stack the emitted program was entered with
    rax,         \* registers of the emitted program
    rdi,
    rdx,
    fault        \* the emitted program was stopped by a divide error

vars == <<argv, pc, user_input, p, toks, token, frames, node, out, err, status,
          ip, stack, stack0, rax, rdi, rdx, fault>>

---------------------------------------------------------------------------
(* Bounds of the model *)

\* every string over Chars up to this length is an input
MaxLen == 4

\* the stacks the emitted program may be entered with hold up to this many values
MaxStack0 == 1

---------------------------------------------------------------------------
(* Characters *)

Digits == <<"0", "1", "2", "3", "4", "5", "6", "7", "8", "9">>

IsDigit(c) == \E i \in 1..Len(Digits) : Digits[i] = c

DigitVal(c) == (CHOOSE i \in 1..Len(Digits) : Digits[i] = c) - 1

IsSpace(c) == c \in {" ", "\t", "\n", "\r"}

IsReserved(c) == c \in {"+", "-", "*", "/", "(", ")"}

---------------------------------------------------------------------------
(* strtol(p, &p, 10) on a digit run, and the conversion of its long to int *)

Limb == 2 ^ 16

\* LONG_MAX as four 16-bit limbs, least significant first
LongMaxLimbs == <<65535, 65535, 65535, 32767>>

\* acc * 10 + d on four 16-bit limbs; c is the carry out of the top limb
MulAdd(acc, d) ==
    LET t1 == acc[1] * 10 + d
        t2 == acc[2] * 10 + (t1 \div Limb)
        t3 == acc[3] * 10 + (t2 \div Limb)
        t4 == acc[4] * 10 + (t3 \div Limb)
    IN  [limbs |-> <<t1 % Limb, t2 % Limb, t3 % Limb, t4 % Limb>>,
         c |-> t4 \div Limb]

RECURSIVE StrtolFrom(_, _, _, _)
\* the digits of s from offset q on are accumulated; past LONG_MAX the result
\* stays LONG_MAX and the remaining digits are still consumed
StrtolFrom(s, q, acc, over) ==
    IF q >= Len(s) \/ ~IsDigit(s[q + 1])
    THEN [val |-> IF over THEN LongMaxLimbs ELSE acc, end |-> q]
    ELSE LET r == MulAdd(acc, DigitVal(s[q + 1]))
             o == over \/ r.c > 0 \/ r.limbs[4] >= 32768
         IN  StrtolFrom(s, q + 1, r.limbs, o)

\* a tokenizer that takes one digit per number token
Strtol_OneDigit(s, q) ==
    [val |-> <<DigitVal(s[q + 1]), 0, 0, 0>>, end |-> q + 1]

Strtol(s, q) == StrtolFrom(s, q, <<0, 0, 0, 0>>, FALSE)

\* int <- long: the low 32 bits, read as a signed 32-bit value
LongToInt(l) ==
    IF l[2] < 32768 THEN l[2] * Limb + l[1] ELSE (l[2] - Limb) * Limb + l[1]

---------------------------------------------------------------------------
(* Tokens *)

\* new_token: calloc zeroes val; str is kept as the offset str - user_input
new_token(kind, str) == [kind |-> kind, val |-> 0, str |-> str]

\* token->str[0]; the end-of-input token points at the terminating NUL
TokChar(s, t) == IF t.str < Len(s) THEN s[t.str + 1] ELSE "NUL"

NoErr == [msg |-> "none", pos |-> 0, op |-> "none"]

\* error_at(loc, fmt, ...): the message and the column of the caret
error_at(loc, msg, op) == [msg |-> msg, pos |-> loc, op |-> op]

---------------------------------------------------------------------------
(* Inputs *)

Chars == {" ", "+", "-", "*", "/", "(", ")", "0", "2", "a"}

Strs(n) == UNION {[1..k -> Chars] : k \in 0..n}

\* the inputs the specification's section 8 names, and literals around the
\* limits of int and long
Named ==
    { <<"8", "-", "3", "-", "2">>,
      <<"2", "+", "3", "*", "4">>,
      <<"(", "2", "+", "3", ")", "*", "4">>,
      <<"2", "*", "(", "3", "+", "4", ")">>,
      <<"8", "/", "(", "3", "-", "3", ")">>,
      <<"7", "/", "2">>,
      <<"4", "2">>,
      <<"1", "+">>,
      <<"1", "+", "a">>,
      <<"(", "1", "+", "2">>,
      <<"1", "+", "2", ")">>,
      <<"1", " ", "2">>,
      <<" ", "1", "2", " ", "+", "\t", "3", " ">>,
      <<"2", "1", "4", "7", "4", "8", "3", "6", "4", "7">>,
      <<"2", "1", "4", "7", "4", "8", "3", "6", "4", "8">>,
      <<"4", "2", "9", "4", "9", "6", "7", "2", "9", "5">>,
      <<"4", "2", "9", "4", "9", "6", "7", "2", "9", "6">>,
      <<"4", "2", "9", "4", "9", "6", "7", "2", "9", "6", ")">>,
      <<"0", "0", "4", "2", "9", "4", "9", "6", "7", "2", "9", "8">>,
      <<"9", "2", "2", "3", "3", "7", "2", "0", "3", "6",
        "8", "5", "4", "7", "7", "5", "8", "0", "7">>,
      <<"9", "2", "2", "3", "3", "7", "2", "0", "3", "6",
        "8", "5", "4", "7", "7", "5", "8", "0", "8">>,
      <<"9", "9", "9", "9", "9", "9", "9", "9", "9", "9",
        "9", "9", "9", "9", "9", "9", "9", "9", "9", "9", "9">> }

Inputs == Strs(MaxLen) \cup Named

\* the argument vectors: none, one input, or two arguments
ArgVectors == {<<>>} \cup {<<s>> : s \in Inputs} \cup {<<s, s>> : s \in Strs(1)}

---------------------------------------------------------------------------
(* The AST *)

NULL == [kind |-> "NULL"]

new_node(kind) == [kind |-> kind, lhs |-> NULL, rhs |-> NULL, val |-> 0]

new_binary(kind, lhs, rhs) == [new_node(kind) EXCEPT !.lhs = lhs, !.rhs = rhs]

new_num(val) == [new_node("ND_NUM") EXCEPT !.val = val]

---------------------------------------------------------------------------
(* Initial state: the process has been started with its arguments *)

Init ==
    /\ argv \in ArgVectors
    /\ pc = "main"
    /\ user_input = <<>>
    /\ p = 0
    /\ toks = <<>>
    /\ token = 0
    /\ frames = <<>>
    /\ node = NULL
    /\ out = <<>>
    /\ err = NoErr
    /\ status = -1
    /\ ip = 0
    /\ stack = <<>>
    /\ stack0 = <<>>
    /\ rax = 0
    /\ rdi = 0
    /\ rdx = 0
    /\ fault = FALSE

\* exit(1) from error_at: the diagnostic is on stderr, nothing else changes
Die(e) ==
    /\ err' = e
    /\ status' = 1
    /\ pc' = "exit"

---------------------------------------------------------------------------
(* main, up to the call of tokenize *)

MainUsage ==
    /\ pc = "main"
    /\ Len(argv) + 1 # 2
    /\ Die(error_at(0, "usage", "none"))
    /\ UNCHANGED <<argv, user_input, p, toks, token, frames, node, out,
                   ip, stack, stack0, rax, rdi, rdx, fault>>

\* a main that prints the assembly header before it tokenizes
MainStart_PrintsHeader ==
    /\ pc = "main"
    /\ Len(argv) + 1 = 2
    /\ user_input' = argv[1]
    /\ p' = 0
    /\ pc' = "tokenize"
    /\ out' = <<[op |-> ".intel_syntax", imm |-> 0]>>
    /\ UNCHANGED <<argv, toks, token, frames, node, err, status,
                   ip, stack, stack0, rax, rdi, rdx, fault>>

MainStart ==
    /\ pc = "main"
    /\ Len(argv) + 1 = 2
    /\ user_input' = argv[1]
    /\ p' = 0
    /\ pc' = "tokenize"
    /\ UNCHANGED <<argv, toks, token, frames, node, out, err, status,
                   ip, stack, stack0, rax, rdi, rdx, fault>>

---------------------------------------------------------------------------
(* tokenize: one action per iteration of its loop *)

AtChar == pc = "tokenize" /\ p < Len(user_input)

LexUnchanged == UNCHANGED <<argv, user_input, token, frames, node, out,
                            ip, stack, stack0, rax, rdi, rdx, fault>>

LexSpace ==
    /\ AtChar
    /\ IsSpace(user_input[p + 1])
    /\ p' = p + 1
    /\ UNCHANGED <<toks, pc, err, status>>
    /\ LexUnchanged

LexReserved ==
    /\ AtChar
    /\ ~IsSpace(user_input[p + 1])
    /\ IsReserved(user_input[p + 1])
    /\ toks' = Append(toks, new_token("TK_RESERVED", p))
    /\ p' = p + 1
    /\ UNCHANGED <<pc, err, status>>
    /\ LexUnchanged

LexNumber ==
    /\ AtChar
    /\ ~IsSpace(user_input[p + 1])
    /\ ~IsReserved(user_input[p + 1])
    /\ IsDigit(user_input[p + 1])
    /\ LET r == Strtol(user_input, p)
       IN  /\ toks' = Append(toks, [new_token("TK_NUM", p) EXCEPT
                                        !.val = LongToInt(r.val)])
           /\ p' = r.end
    /\ UNCHANGED <<pc, err, status>>
    /\ LexUnchanged

\* a tokenizer that skips what it does not recognize
LexError_Skips ==
    /\ AtChar
    /\ ~IsSpace(user_input[p + 1])
    /\ ~IsReserved(user_input[p + 1])
    /\ ~IsDigit(user_input[p + 1])
    /\ p' = p + 1
    /\ UNCHANGED <<toks, pc, err, status>>
    /\ LexUnchanged

LexError ==
    /\ AtChar
    /\ ~IsSpace(user_input[p + 1])
    /\ ~IsReserved(user_input[p + 1])
    /\ ~IsDigit(user_input[p + 1])
    /\ Die(error_at(p, "UnrecognizedCharacter", "none"))
    /\ UNCHANGED <<toks, p>>
    /\ LexUnchanged

\* the loop ends: the end-of-input token is linked, head.next is returned to
\* main, which stores it in token and calls expr
LexEOF ==
    /\ pc = "tokenize"
    /\ p >= Len(user_input)
    /\ toks' = Append(toks, new_token("TK_EOF", p))
    /\ token' = 1
    /\ frames' = <<[fn |-> "expr", at |-> "call", node |-> NULL]>>
    /\ pc' = "parse"
    /\ UNCHANGED <<argv, user_input, p, node, out, err, status,
                   ip, stack, stack0, rax, rdi, rdx, fault>>

tokenize == LexSpace \/ LexReserved \/ LexNumber \/ LexError \/ LexEOF

---------------------------------------------------------------------------
(* The token cursor *)

\* *token; reading through a null or dangling cursor yields no token
Cur == IF token \in 1..Len(toks) THEN toks[token] ELSE new_token("NONE", 0)

\* token->next: the end-of-input token's next is NULL
TokNext == IF token \in 1..(Len(toks) - 1) THEN token + 1 ELSE 0

\* consume(op): whether the current token is the symbol op (the cursor then
\* moves to token->next)
consume(op) == ~(Cur.kind # "TK_RESERVED" \/ TokChar(user_input, Cur) # op)

\* expect(op): the same test; when it fails the error is reported at token->str
expect(op) == ~(Cur.kind # "TK_RESERVED" \/ TokChar(user_input, Cur) # op)

expect_error(op) == error_at(Cur.str, "ExpectedToken", op)

\* an expect_number that only rejects symbols
expect_number_NotReserved == ~(Cur.kind = "TK_RESERVED")

\* expect_number(): whether the current token is a number
expect_number == ~(Cur.kind # "TK_NUM")

\* an error reported at the start of the input instead of at the token
expect_number_error_AtStart == error_at(0, "ExpectedNumber", "none")

expect_number_error == error_at(Cur.str, "ExpectedNumber", "none")

at_eof == Cur.kind = "TK_EOF"

---------------------------------------------------------------------------
(* The parser: expr, mul and primary as frames of a call stack *)

Top == frames[Len(frames)]

InFn(fn, at) == pc = "parse" /\ Len(frames) > 0 /\ Top.fn = fn /\ Top.at = at

Frame(fn) == [fn |-> fn, at |-> "call", node |-> NULL]

\* the caller's frame once its callee has returned v
Deliver(fr, v) ==
    CASE fr.at = "first" -> [fr EXCEPT !.node = v, !.at = "loop"]
      [] fr.at = "add"   -> [fr EXCEPT !.node = new_binary("ND_ADD", fr.node, v),
                                       !.at = "loop"]
      [] fr.at = "sub"   -> [fr EXCEPT !.node = new_binary("ND_SUB", fr.node, v),
                                       !.at = "loop"]
      [] fr.at = "mul"   -> [fr EXCEPT !.node = new_binary("ND_MUL", fr.node, v),
                                       !.at = "loop"]
      [] fr.at = "div"   -> [fr EXCEPT !.node = new_binary("ND_DIV", fr.node, v),
                                       !.at = "loop"]
      [] fr.at = "paren" -> [fr EXCEPT !.node = v, !.at = "close"]

\* the running function calls fn, and will use its result as `as` says
Call(as, fn) ==
    frames' = Append([frames EXCEPT ![Len(frames)].at = as], Frame(fn))

\* the running function returns v: to its caller, or from expr to main
Return(v) ==
    IF Len(frames) = 1
    THEN /\ frames' = <<>>
         /\ node' = v
         /\ pc' = "emit"
    ELSE /\ frames' = [SubSeq(frames, 1, Len(frames) - 1) EXCEPT
                          ![Len(frames) - 1] = Deliver(frames[Len(frames) - 1], v)]
         /\ UNCHANGED <<node, pc>>

ParseUnchanged == UNCHANGED <<argv, user_input, p, toks, out,
                              ip, stack, stack0, rax, rdi, rdx, fault>>

\* Node *node = mul();
ExprCall ==
    /\ InFn("expr", "call")
    /\ Call("first", "mul")
    /\ UNCHANGED <<token, node, pc, err, status>>
    /\ ParseUnchanged

\* if (consume('+')) node = new_binary(ND_ADD, node, mul());
ExprPlus ==
    /\ InFn("expr", "loop")
    /\ consume("+")
    /\ token' = TokNext
    /\ Call("add", "mul")
    /\ UNCHANGED <<node, pc, err, status>>
    /\ ParseUnchanged

\* else if (consume('-')) node = new_binary(ND_SUB, node, mul());
ExprMinus ==
    /\ InFn("expr", "loop")
    /\ ~consume("+")
    /\ consume("-")
    /\ token' = TokNext
    /\ Call("sub", "mul")
    /\ UNCHANGED <<node, pc, err, status>>
    /\ ParseUnchanged

\* else return node;
ExprReturn ==
    /\ InFn("expr", "loop")
    /\ ~consume("+")
    /\ ~consume("-")
    /\ Return(Top.node)
    /\ UNCHANGED <<token, err, status>>
    /\ ParseUnchanged

expr == ExprCall \/ ExprPlus \/ ExprMinus \/ ExprReturn

\* Node *node = primary();
MulCall ==
    /\ InFn("mul", "call")
    /\ Call("first", "primary")
    /\ UNCHANGED <<token, node, pc, err, status>>
    /\ ParseUnchanged

\* if (consume('*')) node = new_binary(ND_MUL, node, primary());
MulStar ==
    /\ InFn("mul", "loop")
    /\ consume("*")
    /\ token' = TokNext
    /\ Call("mul", "primary")
    /\ UNCHANGED <<node, pc, err, status>>
    /\ ParseUnchanged

\* else if (consume('/')) node = new_binary(ND_DIV, node, primary());
MulSlash ==
    /\ InFn("mul", "loop")
    /\ ~consume("*")
    /\ consume("/")
    /\ token' = TokNext
    /\ Call("div", "primary")
    /\ UNCHANGED <<node, pc, err, status>>
    /\ ParseUnchanged

\* else return node;
MulReturn ==
    /\ InFn("mul", "loop")
    /\ ~consume("*")
    /\ ~consume("/")
    /\ Return(Top.node)
    /\ UNCHANGED <<token, err, status>>
    /\ ParseUnchanged

mul == MulCall \/ MulStar \/ MulSlash \/ MulReturn

\* if (consume('(')) { Node *node = expr();
PrimaryParen ==
    /\ InFn("primary", "call")
    /\ consume("(")
    /\ token' = TokNext
    /\ Call("paren", "expr")
    /\ UNCHANGED <<node, pc, err, status>>
    /\ ParseUnchanged

\* expect(')'); return node; }
PrimaryClose ==
    /\ InFn("primary", "close")
    /\ expect(")")
    /\ token' = TokNext
    /\ Return(Top.node)
    /\ UNCHANGED <<err, status>>
    /\ ParseUnchanged

PrimaryCloseError ==
    /\ InFn("primary", "close")
    /\ ~expect(")")
    /\ Die(expect_error(")"))
    /\ UNCHANGED <<token, frames, node>>
    /\ ParseUnchanged

\* return new_num(expect_number());
PrimaryNum ==
    /\ InFn("primary", "call")
    /\ ~consume("(")
    /\ expect_number
    /\ token' = TokNext
    /\ Return(new_num(Cur.val))
    /\ UNCHANGED <<err, status>>
    /\ ParseUnchanged

PrimaryNumError ==
    /\ InFn("primary", "call")
    /\ ~consume("(")
    /\ ~expect_number
    /\ Die(expect_number_error)
    /\ UNCHANGED <<token, frames, node>>
    /\ ParseUnchanged

primary == PrimaryParen \/ PrimaryClose \/ PrimaryCloseError
           \/ PrimaryNum \/ PrimaryNumError

---------------------------------------------------------------------------
(* The code generator *)

Ins(op, imm) == [op |-> op, imm |-> imm]

\* the line gen prints for the operation of a binary node
OpLines(kind) ==
    CASE kind = "ND_ADD" -> <<Ins("add", 0)>>
      [] kind = "ND_SUB" -> <<Ins("sub", 0)>>
      [] kind = "ND_MUL" -> <<Ins("imul", 0)>>
      [] kind = "ND_DIV" -> <<Ins("cqo", 0), Ins("idiv", 0)>>
      [] OTHER -> <<>>

\* the pops in the other order: rax gets the right operand
Pops_Swapped == <<Ins("pop_rax", 0), Ins("pop_rdi", 0)>>

\* the two pops gen prints after the operands' code
Pops == <<Ins("pop_rdi", 0), Ins("pop_rax", 0)>>

RECURSIVE gen_NoPush(_)
\* a generator that forgets to push the result of an operation
gen_NoPush(n) ==
    IF n.kind = "ND_NUM"
    THEN <<Ins("push", n.val)>>
    ELSE gen_NoPush(n.lhs) \o gen_NoPush(n.rhs) \o <<Ins("pop_rdi", 0),
         Ins("pop_rax", 0)>> \o OpLines(n.kind)

RECURSIVE gen(_)
gen(n) ==
    IF n.kind = "ND_NUM"
    THEN <<Ins("push", n.val)>>
    ELSE gen(n.lhs) \o gen(n.rhs) \o Pops \o OpLines(n.kind)
         \o <<Ins("push_rax", 0)>>

Header == <<Ins(".intel_syntax", 0), Ins(".global", 0), Ins("main:", 0)>>

Footer == <<Ins("pop_rax", 0), Ins("ret", 0)>>

\* main after expr has returned: everything it prints, and return 0
Emit ==
    /\ pc = "emit"
    /\ out' = out \o Header \o gen(node) \o Footer
    /\ status' = 0
    /\ pc' = "asm"
    /\ UNCHANGED <<argv, user_input, p, toks, token, frames, node, err,
                   ip, stack, stack0, rax, rdi, rdx, fault>>

---------------------------------------------------------------------------
(* The emitted program, run on the machine it is written for.  Registers  *)
(* are 64 bits wide; the values the model's inputs produce stay below     *)
(* 2^31 in magnitude, where 64-bit arithmetic is exact.                   *)

\* the stacks main may be entered with: the return address on top of up to
\* MaxStack0 other values
StartStacks == {[i \in 1..k |-> 10 + i] : k \in 1..(MaxStack0 + 1)}

Abs(x) == IF x < 0 THEN -x ELSE x

\* idiv's quotient: truncated toward zero
TruncDiv(a, b) ==
    IF (a < 0) = (b < 0) THEN Abs(a) \div Abs(b) ELSE -(Abs(a) \div Abs(b))

\* idiv's remainder has the sign of the dividend
TruncRem(a, b) == a - b * TruncDiv(a, b)

\* the program is assembled, linked and called
AsmStart ==
    /\ pc = "asm"
    /\ stack0' \in StartStacks
    /\ stack' = stack0'
    /\ rdx' \in {0, 5}
    /\ ip' = Len(Header) + 1
    /\ pc' = "run"
    /\ UNCHANGED <<argv, user_input, p, toks, token, frames, node, out, err,
                   status, rax, rdi, fault>>

Running(op) == pc = "run" /\ ip \in 1..Len(out) /\ out[ip].op = op

AsmUnchanged == UNCHANGED <<argv, user_input, p, toks, token, frames, node,
                            out, err, status, stack0>>

ExecPush ==
    /\ Running("push")
    /\ stack' = Append(stack, out[ip].imm)
    /\ ip' = ip + 1
    /\ UNCHANGED <<rax, rdi, rdx, fault, pc>>
    /\ AsmUnchanged

ExecPopRdi ==
    /\ Running("pop_rdi")
    /\ Len(stack) > 0
    /\ rdi' = stack[Len(stack)]
    /\ stack' = SubSeq(stack, 1, Len(stack) - 1)
    /\ ip' = ip + 1
    /\ UNCHANGED <<rax, rdx, fault, pc>>
    /\ AsmUnchanged

ExecPopRax ==
    /\ Running("pop_rax")
    /\ Len(stack) > 0
    /\ rax' = stack[Len(stack)]
    /\ stack' = SubSeq(stack, 1, Len(stack) - 1)
    /\ ip' = ip + 1
    /\ UNCHANGED <<rdi, rdx, fault, pc>>
    /\ AsmUnchanged

ExecAdd ==
    /\ Running("add")
    /\ rax' = rax + rdi
    /\ ip' = ip + 1
    /\ UNCHANGED <<stack, rdi, rdx, fault, pc>>
    /\ AsmUnchanged

ExecSub ==
    /\ Running("sub")
    /\ rax' = rax - rdi
    /\ ip' = ip + 1
    /\ UNCHANGED <<stack, rdi, rdx, fault, pc>>
    /\ AsmUnchanged

ExecImul ==
    /\ Running("imul")
    /\ rax' = rax * rdi
    /\ ip' = ip + 1
    /\ UNCHANGED <<stack, rdi, rdx, fault, pc>>
    /\ AsmUnchanged

\* cqo: rdx:rax <- the sign extension of rax
ExecCqo ==
    /\ Running("cqo")
    /\ rdx' = IF rax < 0 THEN -1 ELSE 0
    /\ ip' = ip + 1
    /\ UNCHANGED <<stack, rax, rdi, fault, pc>>
    /\ AsmUnchanged

\* idiv rdi: rdx:rax / rdi; a zero divisor, or a quotient that does not fit
\* (here: a dividend that is not a sign-extended rax), raises a divide error
IdivFaults == rdi = 0 \/ rdx # (IF rax < 0 THEN -1 ELSE 0)

ExecIdiv ==
    /\ Running("idiv")
    /\ ~IdivFaults
    /\ rax' = TruncDiv(rax, rdi)
    /\ rdx' = TruncRem(rax, rdi)
    /\ ip' = ip + 1
    /\ UNCHANGED <<stack, rdi, fault, pc>>
    /\ AsmUnchanged

ExecIdivFault ==
    /\ Running("idiv")
    /\ IdivFaults
    /\ fault' = TRUE
    /\ pc' = "halt"
    /\ UNCHANGED <<stack, rax, rdi, rdx, ip>>
    /\ AsmUnchanged

ExecPushRax ==
    /\ Running("push_rax")
    /\ stack' = Append(stack, rax)
    /\ ip' = ip + 1
    /\ UNCHANGED <<rax, rdi, rdx, fault, pc>>
    /\ AsmUnchanged

\* ret: the return address is popped and main's caller continues
ExecRet ==
    /\ Running("ret")
    /\ Len(stack) > 0
    /\ stack' = SubSeq(stack, 1, Len(stack) - 1)
    /\ pc' = "halt"
    /\ UNCHANGED <<rax, rdi, rdx, fault, ip>>
    /\ AsmUnchanged

Exec == ExecPush \/ ExecPopRdi \/ ExecPopRax \/ ExecAdd \/ ExecSub \/ ExecImul
        \/ ExecCqo \/ ExecIdiv \/ ExecIdivFault \/ ExecPushRax \/ ExecRet

---------------------------------------------------------------------------
(* The specification *)

Next == MainUsage \/ MainStart \/ tokenize \/ expr \/ mul \/ primary
        \/ Emit \/ AsmStart \/ Exec

Spec == Init /\ [][Next]_vars

---------------------------------------------------------------------------
(* Reference semantics of the expression language, on the program text:    *)
(* an expression is split at its last + or - outside parentheses, a term   *)
(* at its last * or / outside parentheses (left associativity), and a      *)
(* primary is a digit run or a parenthesised expression.  Values are       *)
(* tagged: an integer, "undef" (a division by zero), "big" (a literal      *)
(* beyond the 32-bit int range, whose value is not computed with) or       *)
(* "bad" (the text is not an expression).                                  *)

IntV(n) == [t |-> "int", v |-> n]

Undef == [t |-> "undef", v |-> 0]

Big == [t |-> "big", v |-> 0]

Bad == [t |-> "bad", v |-> 0]

Arith(op, a, b) ==
    CASE a.t = "bad" \/ b.t = "bad" -> Bad
      [] a.t # "bad" /\ b.t # "bad" /\ (a.t = "undef" \/ b.t = "undef") -> Undef
      [] a.t = "int" /\ b.t = "int" ->
            CASE op = "+" -> IntV(a.v + b.v)
              [] op = "-" -> IntV(a.v - b.v)
              [] op = "*" -> IntV(a.v * b.v)
              [] op = "/" -> IF b.v = 0 THEN Undef ELSE IntV(TruncDiv(a.v, b.v))

RECURSIVE Dec(_)
\* the decimal value of a digit sequence
Dec(ds) ==
    IF ds = <<>> THEN 0
    ELSE 10 * Dec(SubSeq(ds, 1, Len(ds) - 1)) + DigitVal(ds[Len(ds)])

RECURSIVE StripZeros(_)
StripZeros(ds) ==
    IF Len(ds) > 1 /\ ds[1] = "0" THEN StripZeros(SubSeq(ds, 2, Len(ds))) ELSE ds

\* whether the digit run denotes a value that a 32-bit int holds
FitsInt(ds) ==
    LET z == StripZeros(ds)
    IN  \/ Len(z) <= 9
        \/ /\ Len(z) = 10
           /\ LET h == Dec(SubSeq(z, 1, 9))
              IN  h < 214748364 \/ (h = 214748364 /\ DigitVal(z[10]) <= 7)

\* the run denotes exactly the integer v
Denotes(ds, v) == FitsInt(ds) /\ v = Dec(StripZeros(ds))

Lit(ds) == IF FitsInt(ds) THEN IntV(Dec(StripZeros(ds))) ELSE Big

AllDigits(s) == Len(s) > 0 /\ \A i \in 1..Len(s) : IsDigit(s[i])

\* the nesting depth of position i: open minus close parentheses before it
DepthAt(s, i) ==
    Cardinality({j \in 1..(i - 1) : s[j] = "("})
    - Cardinality({j \in 1..(i - 1) : s[j] = ")"})

\* the last position of s holding one of ops outside parentheses, or 0
LastOp(s, ops) ==
    LET at == {i \in 1..Len(s) : s[i] \in ops /\ DepthAt(s, i) = 0}
    IN  IF at = {} THEN 0 ELSE CHOOSE i \in at : \A j \in at : j <= i

RECURSIVE RefExpr(_)
RECURSIVE RefMul(_)
RECURSIVE RefPrimary(_)

RefExpr(s) ==
    LET i == LastOp(s, {"+", "-"})
    IN  IF i = 0 THEN RefMul(s)
        ELSE Arith(s[i], RefExpr(SubSeq(s, 1, i - 1)),
                         RefMul(SubSeq(s, i + 1, Len(s))))

RefMul(s) ==
    LET i == LastOp(s, {"*", "/"})
    IN  IF LastOp(s, {"+", "-"}) # 0 THEN Bad
        ELSE IF i = 0 THEN RefPrimary(s)
        ELSE Arith(s[i], RefMul(SubSeq(s, 1, i - 1)),
                         RefPrimary(SubSeq(s, i + 1, Len(s))))

RefPrimary(s) ==
    IF AllDigits(s) THEN Lit(s)
    ELSE IF Len(s) >= 2 /\ s[1] = "(" /\ s[Len(s)] = ")"
         THEN RefExpr(SubSeq(s, 2, Len(s) - 1))
         ELSE Bad

WellFormed(s) == RefExpr(s).t # "bad"

\* the value of a tree: integer addition, subtraction, multiplication, and
\* division truncating toward zero
RECURSIVE Eval(_)
Eval(n) ==
    IF n.kind = "ND_NUM" THEN IntV(n.val)
    ELSE Arith(CASE n.kind = "ND_ADD" -> "+" [] n.kind = "ND_SUB" -> "-"
                 [] n.kind = "ND_MUL" -> "*" [] n.kind = "ND_DIV" -> "/",
               Eval(n.lhs), Eval(n.rhs))

\* expr has returned to main
Parsed == pc \in {"emit", "asm", "run", "halt"}

---------------------------------------------------------------------------
(* C1: for every well-formed input, tokenize and expr end without an      *)
(* error and the tree's value is the value of the expression under        *)
(* standard precedence, left associativity and parentheses.               *)
C1_TreeValue ==
    WellFormed(user_input) =>
        /\ pc # "exit"
        /\ Parsed => Eval(node) = RefExpr(user_input)

\* the same, for the inputs whose literals all fit the token's int
C1_TreeValueOfIntLiterals ==
    RefExpr(user_input).t \in {"int", "undef"} =>
        /\ pc # "exit"
        /\ Parsed => Eval(node) = RefExpr(user_input)

\* witness of the counterpart for int literals: 8-3-2 has been parsed to a
\* tree of value 3
C1_Witness ==
    /\ Parsed
    /\ user_input = <<"8", "-", "3", "-", "2">>
    /\ Eval(node) = IntV(3)

---------------------------------------------------------------------------
(* Where the code of each subtree lies in the emitted program *)

\* the fragments of n's code: for n and each of its subtrees, the number of
\* instructions of gen's output before it (from) and up to its end (to), and
\* the number of values its enclosing fragments have pushed before it (d)
RECURSIVE Frags(_, _, _)
Frags(n, from, d) ==
    {[n |-> n, from |-> from, to |-> from + Len(gen(n)), d |-> d]}
    \cup (IF n.kind = "ND_NUM" THEN {}
          ELSE Frags(n.lhs, from, d)
               \cup Frags(n.rhs, from + Len(gen(n.lhs)), d + 1))

\* the instruction pointer when i instructions of gen's output have run
IpAfter(i) == Len(Header) + i + 1

Executing == pc \in {"run", "halt"} /\ ip < Len(out)

\* the change of the stack depth an instruction makes
Delta(i) ==
    CASE i.op \in {"push", "push_rax"} -> 1
      [] i.op \in {"pop_rdi", "pop_rax"} -> -1
      [] OTHER -> 0

RECURSIVE Net(_)
\* the net change of the stack depth over a code sequence
Net(code) ==
    IF code = <<>> THEN 0
    ELSE Net(SubSeq(code, 1, Len(code) - 1)) + Delta(code[Len(code)])

\* the lowest depth, relative to the start, that a code sequence reaches
Lowest(code) ==
    LET sums == {Net(SubSeq(code, 1, k)) : k \in 0..Len(code)}
    IN  CHOOSE m \in sums : \A x \in sums : m <= x

---------------------------------------------------------------------------
(* C2 as stated: for every AST, running gen's code from any stack ends    *)
(* with that stack plus one value on top, the value of the tree.          *)
C2_Original ==
    pc \in {"run", "halt"} =>
        /\ ~fault
        /\ (pc = "run" /\ ip = IpAfter(Len(gen(node)))) =>
              /\ Eval(node).t = "int"
              /\ stack = Append(stack0, Eval(node).v)

(* C2, amended: for every AST in which no division has a right operand of *)
(* value 0, running gen's code from any stack never stops with a divide   *)
(* error and ends with that stack plus one value on top, the value of the *)
(* tree (left OP right); and after the code of each subtree that has a    *)
(* value, the top of the stack is that subtree's value.                   *)
C2_GenComputesValue ==
    pc \in {"run", "halt"} =>
        /\ Eval(node).t = "int" =>
              /\ ~fault
              /\ (pc = "run" /\ ip = IpAfter(Len(gen(node)))) =>
                    stack = Append(stack0, Eval(node).v)
        /\ \A f \in Frags(node, 0, 0) :
              (pc = "run" /\ ip = IpAfter(f.to) /\ Eval(f.n).t = "int") =>
                    /\ Len(stack) = Len(stack0) + f.d + 1
                    /\ stack[Len(stack)] = Eval(f.n).v
                    /\ SubSeq(stack, 1, Len(stack0)) = stack0

\* the code of 8-3-2 has run on a stack of two values and left 3 on top
C2_Witness ==
    /\ pc = "run"
    /\ ip = IpAfter(Len(gen(node)))
    /\ node.kind = "ND_SUB"
    /\ node.lhs.kind = "ND_SUB"
    /\ Len(stack0) = 2
    /\ stack = Append(stack0, 3)

---------------------------------------------------------------------------
(* C3: the code of every subtree has a net stack effect of +1 and never   *)
(* takes the stack below the depth it started at, so main's final pop rax *)
(* finds exactly one value pushed by the program.                         *)
C3_StackDiscipline ==
    Parsed =>
        \A f \in Frags(node, 0, 0) :
            /\ Net(gen(f.n)) = 1
            /\ Lowest(gen(f.n)) = 0
            /\ (Executing /\ ip = IpAfter(f.from)) =>
                  Len(stack) = Len(stack0) + f.d
            /\ (Executing /\ ip \in IpAfter(f.from)..IpAfter(f.to)) =>
                  Len(stack) >= Len(stack0) + f.d
            /\ (Executing /\ ip = IpAfter(f.to)) =>
                  /\ Len(stack) = Len(stack0) + f.d + 1
                  /\ f.from = 0 /\ f.d = 0 /\ f.to = Len(gen(node)) =>
                        out[ip] = Ins("pop_rax", 0)

\* main's pop rax is about to run after the code of a tree with a binary
\* right operand
C3_Witness ==
    /\ pc = "run"
    /\ ip = IpAfter(Len(gen(node)))
    /\ out[ip].op = "pop_rax"
    /\ node.kind # "ND_NUM"
    /\ node.rhs.kind # "ND_NUM"
    /\ Len(stack) = Len(stack0) + 1

---------------------------------------------------------------------------
(* C4: a run that fails (usage, lex or parse error) has written nothing   *)
(* to standard output and exits non-zero; output begins only after        *)
(* tokenize and expr have both returned.                                  *)
C4_NoOutputOnFailure ==
    /\ pc = "exit" =>
          /\ err.msg \in {"usage", "UnrecognizedCharacter", "ExpectedToken",
                          "ExpectedNumber"}
          /\ out = <<>>
          /\ status # 0 /\ status # -1
    /\ err # NoErr => (pc = "exit" /\ out = <<>>)
    /\ out # <<>> =>
          /\ pc \in {"asm", "run", "halt"}
          /\ frames = <<>>
          /\ node # NULL
          /\ Len(toks) > 0 /\ toks[Len(toks)].kind = "TK_EOF"
          /\ err = NoErr

\* a parse error deep in the input: the run is over, nothing was printed
C4_Witness ==
    /\ pc = "exit"
    /\ err.msg = "ExpectedToken"
    /\ Len(frames) > 3
    /\ out = <<>>
    /\ status = 1

---------------------------------------------------------------------------
(* C5: a parse error is reported at the offset of the token under the     *)
(* cursor when it is detected: ExpectedNumber where primary needs a       *)
(* number and the token is none, ExpectedToken(')') where primary has     *)
(* parsed '(' expr and the token is not ')'.                              *)

Is(s) == user_input = s /\ pc = "exit"

\* C5: each parse error is reported at the offset of the current, unconsumed
\* token; "1+" fails at offset 2, "(1+2" at offset 4
C5_ParseErrorPosition ==
    /\ err.msg = "ExpectedNumber" =>
          /\ token \in 1..Len(toks)
          /\ toks[token].kind # "TK_NUM"
          /\ err.pos = toks[token].str
          /\ Top.fn = "primary" /\ Top.at = "call"
          /\ err.pos = Len(user_input) \/ ~IsDigit(user_input[err.pos + 1])
          /\ \A i \in 1..(token - 1) : toks[i].str < err.pos
    /\ err.msg = "ExpectedToken" =>
          /\ token \in 1..Len(toks)
          /\ err.op = ")"
          /\ ~(toks[token].kind = "TK_RESERVED"
               /\ user_input[toks[token].str + 1] = ")")
          /\ err.pos = toks[token].str
          /\ Top.fn = "primary" /\ Top.at = "close"
          /\ err.pos = Len(user_input) \/ user_input[err.pos + 1] # ")"
          /\ \A i \in 1..(token - 1) : toks[i].str < err.pos
    /\ Is(<<"1", "+">>) => err = error_at(2, "ExpectedNumber", "none")
    /\ Is(<<"(", "1", "+", "2">>) => err = error_at(4, "ExpectedToken", ")")

\* a missing ')' has been reported at a number that follows '(' expr, after
\* a blank
C5_Witness ==
    /\ pc = "exit"
    /\ err = error_at(3, "ExpectedToken", ")")
    /\ token = 3
    /\ toks[token].kind = "TK_NUM"

---------------------------------------------------------------------------
(* C6: an input with a character that is no whitespace, digit or          *)
(* + - * / ( ) fails with UnrecognizedCharacter at the leftmost such      *)
(* character; the parser is never started, so no other error is reported. *)

IsOther(c) == ~IsSpace(c) /\ ~IsDigit(c) /\ ~IsReserved(c)

HasOther(s) == \E i \in 1..Len(s) : IsOther(s[i])

LeftmostOther(s) == CHOOSE i \in 1..Len(s) :
                        IsOther(s[i]) /\ \A j \in 1..(i - 1) : ~IsOther(s[j])

\* C6: the only error of such a run is UnrecognizedCharacter at the leftmost
\* unrecognized character, and the parser never starts
C6_UnrecognizedCharacter ==
    HasOther(user_input) =>
        /\ pc \in {"tokenize", "exit"}
        /\ frames = <<>> /\ token = 0 /\ node = NULL /\ out = <<>>
        /\ pc = "tokenize" => (err = NoErr /\ p < LeftmostOther(user_input))
        /\ pc = "exit" =>
              /\ err = error_at(LeftmostOther(user_input) - 1,
                                "UnrecognizedCharacter", "none")
              /\ status = 1

\* the input has a grammar violation before its unrecognized character
C6_Witness ==
    /\ pc = "exit"
    /\ Len(user_input) = 3
    /\ user_input[1] = ")" /\ user_input[2] = "+" /\ user_input[3] = "a"
    /\ err.pos = 2

---------------------------------------------------------------------------
(* C7: for an input of whitespace, digits and + - * / ( ) only, tokenize  *)
(* returns a non-empty list: one EndOfInput token, last, at the input's   *)
(* length; no token for whitespace; one token per operator or parenthesis *)
(* character; one number token per maximal digit run; positions are the   *)
(* offsets of the first characters, strictly increasing.                  *)

\* tokenize has returned
Lexed == pc \in {"parse", "emit", "asm", "run", "halt"}
         \/ (pc = "exit" /\ err.msg \in {"ExpectedToken", "ExpectedNumber"})

\* the offsets at which a maximal digit run starts
RunStarts(s) ==
    {i \in 0..(Len(s) - 1) : IsDigit(s[i + 1]) /\ (i = 0 \/ ~IsDigit(s[i]))}

\* the offsets of the operator and parenthesis characters
ReservedAt(s) == {i \in 0..(Len(s) - 1) : IsReserved(s[i + 1])}

StrOf(kind) == {toks[i].str : i \in {j \in 1..Len(toks) : toks[j].kind = kind}}

\* C7: the token list of an input without unrecognized characters matches
\* the operator characters and maximal digit runs of the text, in order
C7_TokenSequence ==
    /\ (Len(argv) = 1 /\ ~HasOther(argv[1])) =>
          /\ err.msg # "UnrecognizedCharacter"
          /\ pc = "tokenize" => p <= Len(user_input)
    /\ (Lexed /\ ~HasOther(user_input)) =>
          /\ Len(toks) >= 1
          /\ \A i \in 1..Len(toks) : toks[i].kind = "TK_EOF" <=> i = Len(toks)
          /\ toks[Len(toks)].str = Len(user_input)
          /\ StrOf("TK_RESERVED") = ReservedAt(user_input)
          /\ StrOf("TK_NUM") = RunStarts(user_input)
          /\ \A i \in 1..(Len(toks) - 1) : toks[i].str < toks[i + 1].str
          /\ Len(toks) = Cardinality(ReservedAt(user_input))
                         + Cardinality(RunStarts(user_input)) + 1

\* an input with whitespace and two digit runs, the first of two digits, has
\* been tokenized
C7_Witness ==
    /\ Lexed
    /\ user_input = <<" ", "1", "2", " ", "+", "\t", "3", " ">>
    /\ Len(toks) = 4
    /\ toks[1].val = 12

---------------------------------------------------------------------------
(* C8: a number token's value, and the value the generated code pushes    *)
(* for it, is the decimal integer its digit run denotes; a run that does  *)
(* not fit the token's int makes tokenize fail with a lex error.          *)

\* the maximal digit run of s that starts at offset i
RunAt(s, i) ==
    LET ends == {j \in i..Len(s) : \A k \in (i + 1)..j : IsDigit(s[k])}
    IN  SubSeq(s, i + 1, CHOOSE j \in ends : \A k \in ends : k <= j)

\* C8: every number token, and every pushed immediate, holds the integer its
\* digit run denotes (so no run beyond the int range is ever stored)
C8_Original ==
    /\ \A i \in 1..Len(toks) :
          toks[i].kind = "TK_NUM" =>
              Denotes(RunAt(user_input, toks[i].str), toks[i].val)
    /\ \A k \in 1..Len(out) :
          out[k].op = "push" =>
              \E i \in 1..Len(toks) :
                  /\ toks[i].kind = "TK_NUM"
                  /\ Denotes(RunAt(user_input, toks[i].str), out[k].imm)

\* the counterpart for the runs that fit: the token holds the run's value
C8_ValueOfFittingRuns ==
    \A i \in 1..Len(toks) :
        (toks[i].kind = "TK_NUM" /\ FitsInt(RunAt(user_input, toks[i].str))) =>
            Denotes(RunAt(user_input, toks[i].str), toks[i].val)

---------------------------------------------------------------------------
(* C9: when expr returns to main with the cursor not on EndOfInput (the   *)
(* token is then ')', '(' or a number), no error is reported, the exit    *)
(* status is 0 and the emitted program computes the value of the parsed   *)
(* prefix; for a well-formed input the cursor is on EndOfInput.           *)

\* the text before the current token, without its whitespace
PrefixText == SelectSeq(SubSeq(user_input, 1, Cur.str), LAMBDA c : ~IsSpace(c))

\* C9: trailing tokens are ignored without an error, with status 0, and the
\* emitted program returns the value of the parsed prefix
C9_Original ==
    Parsed =>
        /\ WellFormed(user_input) => at_eof
        /\ ~at_eof =>
              /\ \/ Cur.kind = "TK_NUM"
                 \/ Cur.kind = "TK_RESERVED"
                    /\ TokChar(user_input, Cur) \in {"(", ")"}
              /\ err = NoErr
              /\ pc # "emit" => status = 0
              /\ (pc = "halt" /\ ~fault) => IntV(rax) = RefExpr(PrefixText)

\* the counterpart for prefixes whose literals fit the token's int
C9_TrailingTokensOfIntLiterals ==
    (Parsed /\ ~at_eof /\ RefExpr(PrefixText).t # "big") =>
        /\ \/ Cur.kind = "TK_NUM"
           \/ Cur.kind = "TK_RESERVED"
              /\ TokChar(user_input, Cur) \in {"(", ")"}
        /\ err = NoErr
        /\ ~WellFormed(user_input)
        /\ pc # "emit" => status = 0
        /\ (pc = "halt" /\ ~fault) => IntV(rax) = RefExpr(PrefixText)

C9_Witness ==
    /\ pc = "halt"
    /\ user_input = <<"1", "+", "2", ")">>
    /\ rax = 3
    /\ status = 0

---------------------------------------------------------------------------
(* C10: the cursor moves forward one token at a time and never past the   *)
(* EndOfInput token: it advances only from an operator, parenthesis or    *)
(* number token, is never null where the parser reads it, and parsing     *)
(* ends, with a tree or an error, after at most as many advances as       *)
(* there are tokens other than EndOfInput.                                *)

\* a variant of the parser: the tokens still ahead weigh more than any work
\* the parser does between two advances
Weight(fr) ==
    CASE fr.fn = "expr" /\ fr.at = "call" -> 5
      [] fr.fn = "mul" /\ fr.at = "call" -> 3
      [] OTHER -> 1

RECURSIVE WeightOf(_)
WeightOf(fs) ==
    IF fs = <<>> THEN 0
    ELSE WeightOf(SubSeq(fs, 1, Len(fs) - 1)) + Weight(fs[Len(fs)])

Variant == 6 * (Len(toks) - token) + WeightOf(frames)

CursorInv ==
    /\ pc = "parse" =>
          /\ token \in 1..Len(toks)
          /\ Len(frames) > 0
          /\ ENABLED (expr \/ mul \/ primary)
    /\ (Lexed /\ pc # "parse") => token \in 1..Len(toks)
    /\ Lexed => token - 1 <= Len(toks) - 1

CursorStep ==
    /\ token' # token =>
          \/ pc = "tokenize" /\ token = 0 /\ token' = 1
          \/ /\ pc = "parse"
             /\ token' = token + 1
             /\ token' <= Len(toks)
             /\ toks[token].kind \in {"TK_RESERVED", "TK_NUM"}
    /\ (pc = "parse" /\ pc' = "parse") => (Variant' < Variant /\ Variant' >= 0)
    /\ pc = "parse" => pc' \in {"parse", "emit", "exit"}

\* C10: the cursor stays on a token, advances by one and only from a symbol
\* or number token, and every parser step decreases the variant
C10_CursorForwardAndParsingEnds ==
    /\ []CursorInv
    /\ [][CursorStep]_vars

\* the parser has consumed every token but the last of a nested expression
C10_Witness ==
    /\ pc = "emit"
    /\ Len(toks) = 8
    /\ token = 8
    /\ user_input[1] = "("

====
